---------------------------- MODULE Spec2Model ----------------------------
(***************************************************************************)
(* A model of idl2rs (src/idl2rs/src/main.rs): the driver `main`, the AST  *)
(* builders (`from_pest`), the type resolver, the casing transform and the *)
(* renderer.  Text is modelled with TLA+ strings; a character is a string  *)
(* of length one.                                                          *)
(***************************************************************************)
EXTENDS Integers, Sequences, FiniteSets, TLC

VARIABLES
    \* ---- the casing transform (camel_to_snake)
    cs_pc,      \* "start" | "once" | "twice"
    cs_in,      \* the identifier handed to camel_to_snake
    cs_out,     \* camel_to_snake(cs_in)
    cs_again,   \* camel_to_snake(cs_out)
    \* ---- the type resolver and Type::render
    t_pc,       \* "start" | "resolved" | "rendered"
    t_node,     \* the parse-tree node handed to Type::from_pest
    t_ty,       \* the Type it yields
    t_out,      \* the text Type::render writes for it
    \* ---- a builder attaching a doc comment
    d_pc,       \* "start" | "built"
    d_node,     \* the parse-tree node handed to the builder
    d_ast,      \* the AST node it yields
    \* ---- the driver, main
    pc,         \* "read" | "parse" | "build" | "prologue" | "render" | "exit" | "done"
    stdin,      \* standard input: whether it reads as UTF-8, and what it parses to
    sink,       \* standard output as a sink: whether, after how many writes and for
                \* how long it fails, and the write calls made on it
    input,      \* the String read from stdin
    pairs,      \* the Pairs the parser returned
    doc,        \* the Document built, None before
    stdout,     \* the writes standard output took, in order
    stderr,     \* the lines written to standard error
    status,     \* the exit status, None while running
    phases,     \* the steps of main completed so far, in order
    \* ---- Interface::from_pest and Interface::render on one interface node
    i_pc,       \* "start" | "built" | "rendered"
    i_node,     \* the interface node: the kinds of its body's children, and the node
    i_ast,      \* the Interface built, None before
    i_out       \* the writes Interface::render makes for it, in order

caseVars == <<cs_pc, cs_in, cs_out, cs_again>>
typeVars == <<t_pc, t_node, t_ty, t_out>>
docVars == <<d_pc, d_node, d_ast>>
mainVars == <<pc, stdin, sink, input, pairs, doc, stdout, stderr, status, phases>>
ifaceVars == <<i_pc, i_node, i_ast, i_out>>
vars == <<caseVars, typeVars, docVars, mainVars, ifaceVars>>

----------------------------------------------------------------------------
(* Bounds of the model. *)

\* Longest generated identifier handed to camel_to_snake.
MaxIdentLen == 4

\* Most explicit pointer/const tokens in a type node.
MaxMods == 3

\* Longest generated doc-comment text.
MaxDocLen == 4

\* Most method/typedef children of a generated interface node.
MaxItems == 2

\* Most interface nodes of a generated document node.
MaxInterfaces == 2

\* The latest write at which a failing standard output fails.
MaxSinkWrites == 12

\* Most method/typedef children of the interface node built and rendered on
\* its own.
MaxBody == 3

----------------------------------------------------------------------------
(* Strings. *)

CharAt(s, i) == SubSeq(s, i, i)

StartsWith(s, p) == Len(s) >= Len(p) /\ SubSeq(s, 1, Len(p)) = p

EndsWith(s, p) == Len(s) >= Len(p) /\ SubSeq(s, Len(s) - Len(p) + 1, Len(s)) = p

\* All strings over the characters `alphabet` of length at most n.
RECURSIVE StringsUpTo(_, _)
StringsUpTo(alphabet, n) ==
    IF n = 0 THEN {""}
    ELSE LET S == StringsUpTo(alphabet, n - 1)
         IN  S \cup {s \o c : s \in S, c \in alphabet}

UpperAlphabet == "ABCDEFGHIJKLMNOPQRSTUVWXYZ"
LowerAlphabet == "abcdefghijklmnopqrstuvwxyz"

\* char::is_uppercase on the characters an identifier is made of.
IsUppercase(c) == \E i \in 1..Len(UpperAlphabet) : CharAt(UpperAlphabet, i) = c

IsLowercaseLetter(c) == \E i \in 1..Len(LowerAlphabet) : CharAt(LowerAlphabet, i) = c

\* char::to_lowercase: the lowercase form, a string.
ToLowercase(c) ==
    IF IsUppercase(c)
    THEN LET i == CHOOSE k \in 1..Len(UpperAlphabet) : CharAt(UpperAlphabet, k) = c
         IN  CharAt(LowerAlphabet, i)
    ELSE c

\* char::to_ascii_lowercase applied to every character of s.
RECURSIVE ToAsciiLowercase(_)
ToAsciiLowercase(s) ==
    IF s = "" THEN "" ELSE ToLowercase(CharAt(s, 1)) \o ToAsciiLowercase(Tail(s))

\* str::eq_ignore_ascii_case.
EqIgnoreAsciiCase(a, b) == ToAsciiLowercase(a) = ToAsciiLowercase(b)

----------------------------------------------------------------------------
(* Sequences. *)

RECURSIVE Reverse(_)
Reverse(q) == IF q = <<>> THEN <<>> ELSE Append(Reverse(Tail(q)), Head(q))

\* The text written by a sequence of write! calls.
RECURSIVE Concat(_)
Concat(q) == IF q = <<>> THEN "" ELSE Head(q) \o Concat(Tail(q))

----------------------------------------------------------------------------
(* Parse-tree nodes (pest Pairs): a rule, the text matched, the children. *)

Leaf(rule, str) == [rule |-> rule, str |-> str, inner |-> <<>>]

Node(rule, inner) == [rule |-> rule, str |-> "", inner |-> inner]

\* What a failed assert_eq! leaves instead of a value: the panic unwinds.
Panic(where) == [panic |-> where]

IsPanic(v) == "panic" \in DOMAIN v

----------------------------------------------------------------------------
(* A specification runs one part of the program; the others stay idle. *)

CaseIdle ==
    /\ cs_pc = "idle"
    /\ cs_in = ""
    /\ cs_out = ""
    /\ cs_again = ""

TypeIdle ==
    /\ t_pc = "idle"
    /\ t_node = Node("_type", <<>>)
    /\ t_ty = [base_type |-> "", modifiers |-> <<>>]
    /\ t_out = ""

DocIdle ==
    /\ d_pc = "idle"
    /\ d_node = Node("interface", <<>>)
    /\ d_ast = <<>>

MainIdle ==
    /\ pc = "idle"
    /\ stdin = [utf8 |-> TRUE, parse |-> [ok |-> FALSE, error |-> ""]]
    /\ sink = [fails |-> FALSE, after |-> 0, once |-> FALSE, calls |-> 0]
    /\ input = <<>>
    /\ pairs = <<>>
    /\ doc = <<>>
    /\ stdout = <<>>
    /\ stderr = <<>>
    /\ status = <<>>
    /\ phases = <<>>

IfaceIdle ==
    /\ i_pc = "idle"
    /\ i_node = [body |-> <<>>, node |-> Node("interface", <<>>)]
    /\ i_ast = <<>>
    /\ i_out = <<>>

----------------------------------------------------------------------------
(* Type. *)

\* #[derive(Default)] for Type.
TypeDefault == [base_type |-> "", modifiers |-> <<>>]

\* An identifier arm that tests the leading "I" before int and double.
TypeIdentifierPrefixFirst(result, p) ==
    IF StartsWith(p.str, "I")
    THEN [base_type |-> p.str \o "VTable",
          modifiers |-> Append(result.modifiers, "Pointer")]
    ELSE IF EqIgnoreAsciiCase(p.str, "int")
    THEN [result EXCEPT !.base_type = "i32"]
    ELSE IF EqIgnoreAsciiCase(p.str, "double")
    THEN [result EXCEPT !.base_type = "f64"]
    ELSE [result EXCEPT !.base_type = p.str]

\* The Rule::identifier arm of Type::from_pest.
TypeIdentifier(result, p) ==
    IF EqIgnoreAsciiCase(p.str, "int")
    THEN [result EXCEPT !.base_type = "i32"]
    ELSE IF EqIgnoreAsciiCase(p.str, "double")
    THEN [result EXCEPT !.base_type = "f64"]
    ELSE IF StartsWith(p.str, "I")
    THEN [base_type |-> p.str \o "VTable",
          modifiers |-> Append(result.modifiers, "Pointer")]
    ELSE [result EXCEPT !.base_type = p.str]

\* The match on one child of the type node.
TypeChild(result, p) ==
    CASE p.rule = "identifier" -> TypeIdentifier(result, p)
      [] p.rule = "pointer" ->
            [result EXCEPT !.modifiers = Append(result.modifiers, "Pointer")]
      [] p.rule = "_const" ->
            [result EXCEPT !.modifiers = Append(result.modifiers, "Const")]
      [] OTHER -> result

\* for p in pair.into_inner() { match p.as_rule() { .. } }
RECURSIVE TypeLoop(_, _)
TypeLoop(result, ps) ==
    IF ps = <<>> THEN result ELSE TypeLoop(TypeChild(result, Head(ps)), Tail(ps))

\* A resolver that leaves the modifiers in the order they were pushed.
TypeFinishNoReverse(result) == result

\* result.modifiers.reverse(); result
TypeFinish(result) == [result EXCEPT !.modifiers = Reverse(result.modifiers)]

\* Type::from_pest.
TypeFromPest(pair) ==
    IF pair.rule # "_type" THEN Panic("Type::from_pest")
    ELSE TypeFinish(TypeLoop(TypeDefault, pair.inner))

\* A render loop that writes a marker for every modifier.
TypeRenderModifierAll(m) == IF m = "Pointer" THEN <<"*mut ">> ELSE <<"*const ">>

\* The body of the loop of Type::render: the writes made for one modifier.
TypeRenderModifier(m) == IF m = "Pointer" THEN <<"*mut ">> ELSE <<>>

RECURSIVE TypeRenderModifiers(_)
TypeRenderModifiers(ms) ==
    IF ms = <<>> THEN <<>>
    ELSE TypeRenderModifier(Head(ms)) \o TypeRenderModifiers(Tail(ms))

\* A render that writes the base type name before the markers.
TypeRenderBaseFirst(t) == <<t.base_type>> \o TypeRenderModifiers(t.modifiers)

\* Type::render: the write! calls it makes, in order.
TypeRender(t) == TypeRenderModifiers(t.modifiers) \o <<t.base_type>>

\* Every spelling of s that differs from it only in letter case.
ToUppercase(c) ==
    IF IsLowercaseLetter(c)
    THEN LET i == CHOOSE k \in 1..Len(LowerAlphabet) : CharAt(LowerAlphabet, k) = c
         IN  CharAt(UpperAlphabet, i)
    ELSE c

RECURSIVE CaseVariants(_)
CaseVariants(s) ==
    IF s = "" THEN {""}
    ELSE {c \o r : c \in {ToLowercase(CharAt(s, 1)), ToUppercase(CharAt(s, 1))},
                   r \in CaseVariants(Tail(s))}

\* Base identifiers of the kinds the resolver tells apart.
TypeIdents ==
    CaseVariants("int") \cup CaseVariants("double")
        \cup {"I", "IFoo", "IUnknown", "Integer", "Idouble", "iFoo",
              "HRESULT", "BOOL", "LPCWSTR", "in", "doubles", "i32"}

ModifierTokens == {Leaf("pointer", "*"), Leaf("_const", "const")}

ModifierSeqs == UNION {[1..n -> ModifierTokens] : n \in 0..MaxMods}

\* The tokens ms with the identifier id after the first k of them.
TypeNodeOf(ms, k, id) ==
    Node("_type", SubSeq(ms, 1, k) \o <<Leaf("identifier", id)>>
                      \o SubSeq(ms, k + 1, Len(ms)))

TypeNodes ==
    UNION {{TypeNodeOf(ms, k, id) : k \in 0..Len(ms)} :
              ms \in ModifierSeqs, id \in TypeIdents}

TypeInit ==
    /\ t_pc = "start"
    /\ t_node \in TypeNodes
    /\ t_ty = TypeDefault
    /\ t_out = ""
    /\ CaseIdle /\ DocIdle /\ MainIdle /\ IfaceIdle

\* Parameter, Method and Field builders: Type::from_pest(p).
TypeResolve ==
    /\ t_pc = "start"
    /\ t_ty' = TypeFromPest(t_node)
    /\ t_pc' = "resolved"
    /\ UNCHANGED <<t_node, t_out, caseVars, docVars, mainVars, ifaceVars>>

\* Type::render on the resolved type.
TypeRenderIt ==
    /\ t_pc = "resolved"
    /\ t_out' = Concat(TypeRender(t_ty))
    /\ t_pc' = "rendered"
    /\ UNCHANGED <<t_node, t_ty, caseVars, docVars, mainVars, ifaceVars>>

TypeNext == TypeResolve \/ TypeRenderIt

TypeSpec == TypeInit /\ [][TypeNext]_vars

----------------------------------------------------------------------------
(* camel_to_snake. *)

\* The loop state of camel_to_snake before the first character.
CamelStart == [new |-> "", seen_lowercase |-> FALSE]

\* A loop body that forgets to clear seen_lowercase at an uppercase character.
CamelStepKeepsFlag(st, c) ==
    IF IsUppercase(c)
    THEN [new |-> st.new \o (IF st.seen_lowercase THEN "_" ELSE "") \o ToLowercase(c),
          seen_lowercase |-> st.seen_lowercase]
    ELSE IF c = "_"
    THEN [new |-> st.new \o c, seen_lowercase |-> FALSE]
    ELSE [new |-> st.new \o c, seen_lowercase |-> TRUE]

\* A loop body whose underscore branch forgets to push the character.
CamelStepDropsUnderscore(st, c) ==
    IF IsUppercase(c)
    THEN [new |-> st.new \o (IF st.seen_lowercase THEN "_" ELSE "") \o ToLowercase(c),
          seen_lowercase |-> FALSE]
    ELSE IF c = "_"
    THEN [new |-> st.new, seen_lowercase |-> FALSE]
    ELSE [new |-> st.new \o c, seen_lowercase |-> TRUE]

\* One iteration of the loop over input.chars().
CamelStep(st, c) ==
    IF IsUppercase(c)
    THEN [new |-> st.new \o (IF st.seen_lowercase THEN "_" ELSE "") \o ToLowercase(c),
          seen_lowercase |-> FALSE]
    ELSE IF c = "_"
    THEN [new |-> st.new \o c, seen_lowercase |-> FALSE]
    ELSE [new |-> st.new \o c, seen_lowercase |-> TRUE]

RECURSIVE CamelLoop(_, _)
CamelLoop(st, rest) ==
    IF rest = "" THEN st ELSE CamelLoop(CamelStep(st, CharAt(rest, 1)), Tail(rest))

camel_to_snake(ident) == CamelLoop(CamelStart, ident).new

----------------------------------------------------------------------------
(* Doc comments. *)

\* str::trim_end_matches with a &str pattern: the pattern, as a whole, is
\* removed from the end for as long as the text ends with it.
RECURSIVE TrimEndMatches(_, _)
TrimEndMatches(s, pat) ==
    IF pat # "" /\ EndsWith(s, pat)
    THEN TrimEndMatches(SubSeq(s, 1, Len(s) - Len(pat)), pat)
    ELSE s

\* Option<&str>: None is <<>>, Some(s) is <<s>>.
None == <<>>
Some(v) == <<v>>
UnwrapOr(opt, default) == IF opt = None THEN default ELSE opt[1]

\* The Rule::doc_comment arm of every builder.
DocComment(p) == Some(TrimEndMatches(p.str, " \t"))

----------------------------------------------------------------------------
(* Parameter. *)

ParameterDefault == [attributes |-> <<>>, type |-> TypeDefault, name |-> ""]

ParameterChild(result, p) ==
    CASE p.rule = "parameter_attribute" ->
            [result EXCEPT !.attributes = Append(result.attributes, p.str)]
      [] p.rule = "_type" -> [result EXCEPT !.type = TypeFromPest(p)]
      [] p.rule = "identifier" -> [result EXCEPT !.name = p.str]
      [] OTHER -> result

\* for p in pair.into_inner() { match p.as_rule() { .. } }
RECURSIVE ParameterLoop(_, _)
ParameterLoop(result, ps) ==
    IF ps = <<>> THEN result ELSE ParameterLoop(ParameterChild(result, Head(ps)), Tail(ps))

\* Parameter::from_pest.
ParameterFromPest(pair) ==
    IF pair.rule # "parameter" THEN Panic("Parameter::from_pest")
    ELSE ParameterLoop(ParameterDefault, pair.inner)

\* [&str]::join.
RECURSIVE Join(_, _)
Join(q, sep) ==
    IF q = <<>> THEN ""
    ELSE IF Len(q) = 1 THEN q[1]
    ELSE q[1] \o sep \o Join(Tail(q), sep)

\* Parameter::render: its writes.
ParameterRender(self) ==
    (IF self.attributes # <<>>
     THEN <<"/* " \o Join(self.attributes, ", ") \o " */ ">>
     ELSE <<>>)
    \o <<self.name \o ": ">>
    \o TypeRender(self.type)

----------------------------------------------------------------------------
(* Method. *)

MethodDefault ==
    [doc_comment |-> None, return_type |-> TypeDefault, name |-> "",
     parameters |-> <<>>]

MethodChild(result, p) ==
    CASE p.rule = "doc_comment" -> [result EXCEPT !.doc_comment = DocComment(p)]
      [] p.rule = "_type" -> [result EXCEPT !.return_type = TypeFromPest(p)]
      [] p.rule = "method_name" -> [result EXCEPT !.name = p.str]
      [] p.rule = "parameter" ->
            [result EXCEPT !.parameters = Append(result.parameters, ParameterFromPest(p))]
      [] OTHER -> result

\* for p in pair.into_inner() { match p.as_rule() { .. } }
RECURSIVE MethodLoop(_, _)
MethodLoop(result, ps) ==
    IF ps = <<>> THEN result ELSE MethodLoop(MethodChild(result, Head(ps)), Tail(ps))

\* Method::from_pest.
MethodFromPest(pair) ==
    IF pair.rule # "method" THEN Panic("Method::from_pest")
    ELSE MethodLoop(MethodDefault, pair.inner)

RECURSIVE MethodRenderParameters(_)
MethodRenderParameters(ps) ==
    IF ps = <<>> THEN <<>>
    ELSE <<", ">> \o ParameterRender(Head(ps)) \o MethodRenderParameters(Tail(ps))

\* Method::render: its writes.
MethodRender(self) ==
    <<UnwrapOr(self.doc_comment, ""),
      "    unsafe fn " \o camel_to_snake(self.name) \o "(&self">>
    \o MethodRenderParameters(self.parameters)
    \o <<") -> ">>
    \o TypeRender(self.return_type)
    \o <<";\n">>

----------------------------------------------------------------------------
(* TypedefEnum and Variant. *)

VariantDefault == [doc_comment |-> None, name |-> ""]

VariantChild(result, p) ==
    CASE p.rule = "doc_comment" -> [result EXCEPT !.doc_comment = DocComment(p)]
      [] p.rule = "identifier" -> [result EXCEPT !.name = p.str]
      [] OTHER -> result

\* for p in pair.into_inner() { match p.as_rule() { .. } }
RECURSIVE VariantLoop(_, _)
VariantLoop(result, ps) ==
    IF ps = <<>> THEN result ELSE VariantLoop(VariantChild(result, Head(ps)), Tail(ps))

TypedefEnumDefault == [doc_comment |-> None, name |-> "", variants |-> <<>>]

TypedefEnumChild(result, p) ==
    CASE p.rule = "doc_comment" -> [result EXCEPT !.doc_comment = DocComment(p)]
      [] p.rule = "identifier" -> [result EXCEPT !.name = p.str]
      [] p.rule = "variant" ->
            [result EXCEPT !.variants =
                Append(result.variants, VariantLoop(VariantDefault, p.inner))]
      [] OTHER -> result

\* for p in pair.into_inner() { match p.as_rule() { .. } }
RECURSIVE TypedefEnumLoop(_, _)
TypedefEnumLoop(result, ps) ==
    IF ps = <<>> THEN result ELSE TypedefEnumLoop(TypedefEnumChild(result, Head(ps)), Tail(ps))

\* TypedefEnum::from_pest.
TypedefEnumFromPest(pair) ==
    IF pair.rule # "typedef_enum" THEN Panic("TypedefEnum::from_pest")
    ELSE TypedefEnumLoop(TypedefEnumDefault, pair.inner)

RECURSIVE TypedefEnumRenderVariants(_)
TypedefEnumRenderVariants(vs) ==
    IF vs = <<>> THEN <<>>
    ELSE <<UnwrapOr(Head(vs).doc_comment, ""), "    " \o Head(vs).name \o ",\n">>
         \o TypedefEnumRenderVariants(Tail(vs))

\* TypedefEnum::render: its writes.
TypedefEnumRender(self) ==
    <<UnwrapOr(self.doc_comment, ""), "#[repr(u32)]\n",
      "pub enum " \o self.name \o " {\n">>
    \o TypedefEnumRenderVariants(self.variants)
    \o <<"}\n">>

----------------------------------------------------------------------------
(* Field and TypedefStruct. *)

FieldDefault == [doc_comment |-> None, name |-> "", type |-> TypeDefault]

FieldChild(result, p) ==
    CASE p.rule = "doc_comment" -> [result EXCEPT !.doc_comment = DocComment(p)]
      [] p.rule = "_type" -> [result EXCEPT !.type = TypeFromPest(p)]
      [] p.rule = "identifier" -> [result EXCEPT !.name = p.str]
      [] OTHER -> result

\* for p in pair.into_inner() { match p.as_rule() { .. } }
RECURSIVE FieldLoop(_, _)
FieldLoop(result, ps) ==
    IF ps = <<>> THEN result ELSE FieldLoop(FieldChild(result, Head(ps)), Tail(ps))

\* Field::from_pest.
FieldFromPest(pair) ==
    IF pair.rule # "field" THEN Panic("Field::from_pest")
    ELSE FieldLoop(FieldDefault, pair.inner)

TypedefStructDefault == [doc_comment |-> None, name |-> "", fields |-> <<>>]

TypedefStructChild(result, p) ==
    CASE p.rule = "doc_comment" -> [result EXCEPT !.doc_comment = DocComment(p)]
      [] p.rule = "identifier" -> [result EXCEPT !.name = p.str]
      [] p.rule = "field" ->
            [result EXCEPT !.fields = Append(result.fields, FieldFromPest(p))]
      [] OTHER -> result

\* for p in pair.into_inner() { match p.as_rule() { .. } }
RECURSIVE TypedefStructLoop(_, _)
TypedefStructLoop(result, ps) ==
    IF ps = <<>> THEN result ELSE TypedefStructLoop(TypedefStructChild(result, Head(ps)), Tail(ps))

\* TypedefStruct::from_pest.
TypedefStructFromPest(pair) ==
    IF pair.rule # "typedef_struct" THEN Panic("TypedefStruct::from_pest")
    ELSE TypedefStructLoop(TypedefStructDefault, pair.inner)

RECURSIVE TypedefStructRenderFields(_)
TypedefStructRenderFields(fs) ==
    IF fs = <<>> THEN <<>>
    ELSE <<UnwrapOr(Head(fs).doc_comment, ""), "    " \o Head(fs).name \o ": ">>
         \o TypeRender(Head(fs).type)
         \o <<",\n">>
         \o TypedefStructRenderFields(Tail(fs))

\* TypedefStruct::render: its writes.
TypedefStructRender(self) ==
    <<UnwrapOr(self.doc_comment, ""), "#[repr(C)]\n",
      "pub struct " \o self.name \o " {\n">>
    \o TypedefStructRenderFields(self.fields)
    \o <<"}\n">>

----------------------------------------------------------------------------
(* Interface. *)

InterfaceDefault ==
    [doc_comment |-> None, name |-> "", parent |-> "", uuid |-> None,
     attributes |-> <<>>, enums |-> <<>>, structs |-> <<>>, methods |-> <<>>]

InterfaceChild(result, p) ==
    CASE p.rule = "doc_comment" -> [result EXCEPT !.doc_comment = DocComment(p)]
      [] p.rule = "uuid" -> [result EXCEPT !.uuid = Some(p.str)]
      [] p.rule = "other_attribute" ->
            [result EXCEPT !.attributes = Append(result.attributes, p.str)]
      [] p.rule = "interface_name" -> [result EXCEPT !.name = p.str]
      [] p.rule = "parent" -> [result EXCEPT !.parent = p.str]
      [] p.rule = "method" ->
            [result EXCEPT !.methods = Append(result.methods, MethodFromPest(p))]
      [] p.rule = "typedef_enum" ->
            [result EXCEPT !.enums = Append(result.enums, TypedefEnumFromPest(p))]
      [] p.rule = "typedef_struct" ->
            [result EXCEPT !.structs = Append(result.structs, TypedefStructFromPest(p))]
      [] OTHER -> result

\* for p in pair.into_inner() { match p.as_rule() { .. } }
RECURSIVE InterfaceLoop(_, _)
InterfaceLoop(result, ps) ==
    IF ps = <<>> THEN result ELSE InterfaceLoop(InterfaceChild(result, Head(ps)), Tail(ps))

\* Interface::from_pest.
InterfaceFromPest(pair) ==
    IF pair.rule # "interface" THEN Panic("Interface::from_pest")
    ELSE InterfaceLoop(InterfaceDefault, pair.inner)

RECURSIVE InterfaceRenderMethods(_, _)
InterfaceRenderMethods(ms, first) ==
    IF ms = <<>> THEN <<>>
    ELSE (IF first THEN <<>> ELSE <<"\n">>)
         \o MethodRender(Head(ms))
         \o InterfaceRenderMethods(Tail(ms), FALSE)

RECURSIVE InterfaceRenderEnums(_)
InterfaceRenderEnums(es) ==
    IF es = <<>> THEN <<>>
    ELSE <<"\n">> \o TypedefEnumRender(Head(es)) \o InterfaceRenderEnums(Tail(es))

RECURSIVE InterfaceRenderStructs(_)
InterfaceRenderStructs(ss) ==
    IF ss = <<>> THEN <<>>
    ELSE <<"\n">> \o TypedefStructRender(Head(ss)) \o InterfaceRenderStructs(Tail(ss))

\* A render that emits the nested structs before the nested enums.
InterfaceRenderStructsFirst(self) ==
    <<UnwrapOr(self.doc_comment, "")>>
    \o (IF self.uuid # None
        THEN <<"#[com_interface(\"" \o self.uuid[1] \o "\")]\n">>
        ELSE <<>>)
    \o <<"pub trait " \o self.name \o ": " \o self.parent \o " {\n">>
    \o InterfaceRenderMethods(self.methods, TRUE)
    \o <<"}\n">>
    \o InterfaceRenderStructs(self.structs)
    \o InterfaceRenderEnums(self.enums)

\* Interface::render: its writes.
InterfaceRender(self) ==
    <<UnwrapOr(self.doc_comment, "")>>
    \o (IF self.uuid # None
        THEN <<"#[com_interface(\"" \o self.uuid[1] \o "\")]\n">>
        ELSE <<>>)
    \o <<"pub trait " \o self.name \o ": " \o self.parent \o " {\n">>
    \o InterfaceRenderMethods(self.methods, TRUE)
    \o <<"}\n">>
    \o InterfaceRenderEnums(self.enums)
    \o InterfaceRenderStructs(self.structs)

----------------------------------------------------------------------------
(* Document. *)

DocumentDefault == [interfaces |-> <<>>]

DocumentChild(result, p) ==
    CASE p.rule = "interface" ->
            [result EXCEPT !.interfaces = Append(result.interfaces, InterfaceFromPest(p))]
      [] OTHER -> result

\* for p in pair.into_inner() { match p.as_rule() { .. } }
RECURSIVE DocumentLoop(_, _)
DocumentLoop(result, ps) ==
    IF ps = <<>> THEN result ELSE DocumentLoop(DocumentChild(result, Head(ps)), Tail(ps))

\* A builder without its assertion: it walks whatever node it is given.
DocumentFromPestUnchecked(pair) ==
    DocumentLoop(DocumentDefault, pair.inner)

\* Document::from_pest.
DocumentFromPest(pair) ==
    IF pair.rule # "document" THEN Panic("Document::from_pest")
    ELSE DocumentLoop(DocumentDefault, pair.inner)

RECURSIVE DocumentRenderInterfaces(_, _)
DocumentRenderInterfaces(is, first) ==
    IF is = <<>> THEN <<>>
    ELSE (IF ~first THEN <<"\n">> ELSE <<>>)
         \o InterfaceRender(Head(is))
         \o DocumentRenderInterfaces(Tail(is), FALSE)

\* Document::render: its writes.
DocumentRender(self) == DocumentRenderInterfaces(self.interfaces, TRUE)

----------------------------------------------------------------------------
(* The casing transform on its own. *)

\* The characters generated identifiers are drawn from: uppercase letters,
\* lowercase letters, a digit and the underscore.
IdentAlphabet == {"A", "B", "c", "d", "2", "_"}

\* Method names of the kind the generator is run on.
SampleIdents == {"GetCount", "GetWebView2Settings", "ABCdef", "get_count",
                 "put_IsVisible", "AddRef", "HRESULT_From", "Level2Up"}

CaseInputs == StringsUpTo(IdentAlphabet, MaxIdentLen) \cup SampleIdents

CaseInit ==
    /\ cs_pc = "start"
    /\ cs_in \in CaseInputs
    /\ cs_out = ""
    /\ cs_again = ""
    /\ TypeIdle /\ DocIdle /\ MainIdle /\ IfaceIdle

\* Method::render names the method camel_to_snake(self.name).
CaseApply ==
    /\ cs_pc = "start"
    /\ cs_out' = camel_to_snake(cs_in)
    /\ cs_pc' = "once"
    /\ UNCHANGED <<cs_in, cs_again, typeVars, docVars, mainVars, ifaceVars>>

\* The transform applied to its own result.
CaseApplyAgain ==
    /\ cs_pc = "once"
    /\ cs_again' = camel_to_snake(cs_out)
    /\ cs_pc' = "twice"
    /\ UNCHANGED <<cs_in, cs_out, typeVars, docVars, mainVars, ifaceVars>>

CaseNext == CaseApply \/ CaseApplyAgain

CaseSpec == CaseInit /\ [][CaseNext]_vars

----------------------------------------------------------------------------
(* A builder on a node that carries a doc comment. *)

\* The characters generated doc-comment texts are drawn from.
DocAlphabet == {"/", "x", " ", "\t", "\n"}

DocTexts == StringsUpTo(DocAlphabet, MaxDocLen)

\* The builders that attach a doc comment. A Variant is built inside
\* TypedefEnum::from_pest.
DocBuilders == {"Interface", "Method", "TypedefEnum", "Variant", "TypedefStruct", "Field"}

SimpleType(id) == Node("_type", <<Leaf("identifier", id)>>)

\* A node for builder b whose doc_comment child captured `text`.
DocNodeFor(b, text) ==
    LET dc == Leaf("doc_comment", text) IN
    CASE b = "Interface" ->
            Node("interface", <<dc, Leaf("interface_name", "IA"), Leaf("parent", "IUnknown")>>)
      [] b = "Method" ->
            Node("method", <<dc, SimpleType("HRESULT"), Leaf("method_name", "GetCount")>>)
      [] b = "TypedefEnum" ->
            Node("typedef_enum", <<dc, Leaf("identifier", "EA")>>)
      [] b = "Variant" ->
            Node("typedef_enum", <<Leaf("identifier", "EA"),
                                   Node("variant", <<dc, Leaf("identifier", "X")>>)>>)
      [] b = "TypedefStruct" ->
            Node("typedef_struct", <<dc, Leaf("identifier", "SA")>>)
      [] b = "Field" ->
            Node("field", <<dc, SimpleType("int"), Leaf("identifier", "x")>>)

\* The builder that is handed the node.
BuildWith(b, node) ==
    CASE b = "Interface" -> InterfaceFromPest(node)
      [] b = "Method" -> MethodFromPest(node)
      [] b \in {"TypedefEnum", "Variant"} -> TypedefEnumFromPest(node)
      [] b = "TypedefStruct" -> TypedefStructFromPest(node)
      [] b = "Field" -> FieldFromPest(node)

\* The doc comment stored in the AST node built for builder b.
StoredDoc(b, ast) ==
    IF b = "Variant" THEN ast.variants[1].doc_comment ELSE ast.doc_comment

DocInit ==
    /\ d_pc = "start"
    /\ d_node \in {[builder |-> b, text |-> t, node |-> DocNodeFor(b, t)] :
                      b \in DocBuilders, t \in DocTexts}
    /\ d_ast = <<>>
    /\ CaseIdle /\ TypeIdle /\ MainIdle /\ IfaceIdle

\* The builder runs on the node.
DocBuild ==
    /\ d_pc = "start"
    /\ d_ast' = <<BuildWith(d_node.builder, d_node.node)>>
    /\ d_pc' = "built"
    /\ UNCHANGED <<d_node, caseVars, typeVars, mainVars, ifaceVars>>

DocNext == DocBuild

DocSpec == DocInit /\ [][DocNext]_vars

----------------------------------------------------------------------------
(* The driver. *)

\* The static prologue main prints before the rendered Document (its first
\* and last lines; the text between them is fixed data).
Prologue ==
    "#![allow(clippy::missing_safety_doc, non_camel_case_types, non_snake_case)]\n"
    \o "pub type FnCreateCoreWebView2EnvironmentWithDetails = unsafe extern \"stdcall\" fn() -> HRESULT;\n"

\* IDLParser::parse(Rule::document, &input): what the grammar makes of the text.
IDLParser_parse(text) == text.parse

\* A sink that ignores a failed write and carries on with the writes after it.
RECURSIVE SinkWriteIgnoring(_, _, _, _)
SinkWriteIgnoring(snk, ws, taken, failed) ==
    IF ws = <<>> THEN [sink |-> snk, taken |-> taken, failed |-> failed]
    ELSE IF Head(ws) = "" THEN SinkWriteIgnoring(snk, Tail(ws), taken, failed)
    ELSE IF snk.fails /\ snk.after = 0
    THEN SinkWriteIgnoring([snk EXCEPT !.calls = snk.calls + 1, !.fails = ~snk.once],
                           Tail(ws), taken, TRUE)
    ELSE SinkWriteIgnoring([snk EXCEPT !.calls = snk.calls + 1,
                                       !.after = IF snk.fails THEN snk.after - 1 ELSE 0],
                           Tail(ws), Append(taken, Head(ws)), failed)

SinkWriteGoesOn(snk, ws, taken) == SinkWriteIgnoring(snk, ws, taken, FALSE)

\* A sink taking the writes ws in order, each followed by `?`: the writes it
\* takes, and whether one failed; none is made after the one that fails.  A
\* write of no bytes calls the sink for nothing and cannot fail.  A sink that
\* fails refuses one write (once) or every write from then on.
RECURSIVE SinkWrite(_, _, _)
SinkWrite(snk, ws, taken) ==
    IF ws = <<>> THEN [sink |-> snk, taken |-> taken, failed |-> FALSE]
    ELSE IF Head(ws) = "" THEN SinkWrite(snk, Tail(ws), taken)
    ELSE IF snk.fails /\ snk.after = 0
    THEN [sink |-> [snk EXCEPT !.calls = snk.calls + 1, !.fails = ~snk.once],
          taken |-> taken, failed |-> TRUE]
    ELSE SinkWrite([snk EXCEPT !.calls = snk.calls + 1,
                               !.after = IF snk.fails THEN snk.after - 1 ELSE 0],
                   Tail(ws), Append(taken, Head(ws)))

Letters == "ABCDEFGH"

\* The j-th child of an interface body, of the given kind.
MethodNode(j) ==
    Node("method",
         (IF j % 2 = 1 THEN <<Leaf("doc_comment", "    /// m\n    ")>> ELSE <<>>)
         \o <<SimpleType("HRESULT"), Leaf("method_name", "Get" \o CharAt(Letters, j))>>
         \o (IF j % 2 = 1
             THEN <<Node("parameter",
                         <<Leaf("parameter_attribute", "out"),
                           Node("_type", <<Leaf("identifier", "IFoo"), Leaf("pointer", "*")>>),
                           Leaf("identifier", "value")>>)>>
             ELSE <<>>))

EnumNode(j) ==
    Node("typedef_enum",
         <<Leaf("identifier", "E" \o CharAt(Letters, j)),
           Node("variant", <<Leaf("doc_comment", "    /// v\n    "), Leaf("identifier", "X")>>),
           Node("variant", <<Leaf("identifier", "Y")>>)>>)

StructNode(j) ==
    Node("typedef_struct",
         <<Leaf("identifier", "S" \o CharAt(Letters, j)),
           Node("field", <<SimpleType("int"), Leaf("identifier", "x")>>)>>)

ItemKinds == {"method", "typedef_enum", "typedef_struct"}

ItemNode(kind, j) ==
    CASE kind = "method" -> MethodNode(j)
      [] kind = "typedef_enum" -> EnumNode(j)
      [] kind = "typedef_struct" -> StructNode(j)

\* The kinds of an interface body's children, in source order.
Bodies == UNION {[1..n -> ItemKinds] : n \in 0..MaxItems}

\* The i-th interface node of a document, with the given body.
InterfaceNode(i, body) ==
    Node("interface",
         (IF i = 1
          THEN <<Leaf("doc_comment", "/// i\n"),
                 Leaf("uuid", "0c733a30-2a1c-11ce-ade5-00aa0044773d"),
                 Leaf("other_attribute", "object")>>
          ELSE <<>>)
         \o <<Leaf("interface_name", "I" \o CharAt(Letters, i)), Leaf("parent", "IUnknown")>>
         \o [j \in 1..Len(body) |-> ItemNode(body[j], j)])

\* A document node of n interfaces, each with the given body.
DocumentNode(n, body) ==
    Node("document", [i \in 1..n |-> InterfaceNode(i, body)] \o <<Leaf("EOI", "")>>)

DocumentNodes ==
    {DocumentNode(n, body) : n \in 0..MaxInterfaces, body \in Bodies}

\* What the parser can make of an input: a located error, the document
\* pair, or, should the grammar and the builders disagree, something else.
ParseOutcomes ==
    {[ok |-> FALSE, error |-> " --> 3:1\n  = expected interface"]}
        \cup {[ok |-> TRUE, pairs |-> <<d>>] : d \in DocumentNodes}
        \cup {[ok |-> TRUE, pairs |-> <<InterfaceNode(1, <<"method">>)>>],
              [ok |-> TRUE, pairs |-> <<Leaf("EOI", "")>>],
              [ok |-> TRUE, pairs |-> <<>>]}

Stdins ==
    {[utf8 |-> FALSE, parse |-> [ok |-> FALSE, error |-> ""]]}
        \cup {[utf8 |-> TRUE, parse |-> o] : o \in ParseOutcomes}

Sinks ==
    {[fails |-> FALSE, after |-> 0, once |-> FALSE, calls |-> 0]}
        \cup {[fails |-> TRUE, after |-> k, once |-> o, calls |-> 0] :
                 k \in 0..MaxSinkWrites, o \in BOOLEAN}

Init ==
    /\ pc = "read"
    /\ stdin \in Stdins
    /\ sink \in Sinks
    /\ input = None
    /\ pairs = <<>>
    /\ doc = None
    /\ stdout = <<>>
    /\ stderr = <<>>
    /\ status = None
    /\ phases = <<>>
    /\ CaseIdle /\ TypeIdle /\ DocIdle /\ IfaceIdle

\* A panic: the message goes to standard error and the process ends with
\* status 101.
PanicExit(msg) ==
    /\ stderr' = Append(stderr, "thread 'main' panicked at " \o msg)
    /\ status' = Some(101)
    /\ pc' = "done"

\* io::stdin().read_to_string(&mut input).unwrap()
Read ==
    /\ pc = "read"
    /\ IF stdin.utf8
       THEN /\ input' = Some(stdin)
            /\ pc' = "parse"
            /\ phases' = Append(phases, "read")
            /\ UNCHANGED <<stderr, status>>
       ELSE /\ PanicExit("read_to_string")
            /\ UNCHANGED <<input, phases>>
    /\ UNCHANGED <<stdin, sink, pairs, doc, stdout, caseVars, typeVars, docVars, ifaceVars>>

\* A parse step whose error handler reports and carries on.
ParseStepNoExit(r) ==
    IF r.ok
    THEN /\ pairs' = r.pairs
         /\ pc' = "build"
         /\ phases' = Append(phases, "parse")
         /\ UNCHANGED <<stderr, status>>
    ELSE /\ stderr' = Append(stderr, "Parsing error: " \o r.error \o "\n")
         /\ pairs' = <<Node("document", <<>>)>>
         /\ pc' = "build"
         /\ phases' = Append(phases, "parse")
         /\ UNCHANGED status

\* What main does with the parser's result r.
ParseStep(r) ==
    IF r.ok
    THEN /\ pairs' = r.pairs
         /\ pc' = "build"
         /\ phases' = Append(phases, "parse")
         /\ UNCHANGED <<stderr, status>>
    ELSE /\ stderr' = Append(stderr, "Parsing error: " \o r.error \o "\n")
         /\ status' = Some(1)
         /\ pc' = "done"
         /\ UNCHANGED <<pairs, phases>>

\* IDLParser::parse(..).unwrap_or_else(|e| { eprintln!(..); exit(1) })
Parse ==
    /\ pc = "parse"
    /\ ParseStep(IDLParser_parse(input[1]))
    /\ UNCHANGED <<stdin, sink, input, doc, stdout, caseVars, typeVars, docVars, ifaceVars>>

\* let doc = Document::from_pest(p.next().unwrap());
Build ==
    /\ pc = "build"
    /\ IF pairs = <<>>
       THEN /\ PanicExit("Option::unwrap() on a None value")
            /\ UNCHANGED <<doc, phases>>
       ELSE LET built == DocumentFromPest(Head(pairs)) IN
            IF IsPanic(built)
            THEN /\ PanicExit("assertion failed: " \o built.panic)
                 /\ UNCHANGED <<doc, phases>>
            ELSE /\ doc' = Some(built)
                 /\ pc' = "prologue"
                 /\ phases' = Append(phases, "build")
                 /\ UNCHANGED <<stderr, status>>
    /\ UNCHANGED <<stdin, sink, input, pairs, stdout, caseVars, typeVars, docVars, ifaceVars>>

\* One step of main that writes ws to standard output and goes on to `next`,
\* or panics at the write that fails.
WriteStep(ws, phase, next) ==
    LET w == SinkWrite(sink, ws, <<>>) IN
    /\ stdout' = stdout \o w.taken
    /\ sink' = w.sink
    /\ IF w.failed
       THEN /\ PanicExit("failed writing to stdout")
            /\ UNCHANGED phases
       ELSE /\ pc' = next
            /\ phases' = Append(phases, phase)
            /\ UNCHANGED <<stderr, status>>

\* A prologue printed as soon as the input is read, before it is parsed.
PrintPrologueEarly ==
    \/ /\ pc = "parse"
       /\ stdout = <<>>
       /\ WriteStep(<<Prologue>>, "prologue", "parse")
       /\ UNCHANGED <<stdin, input, pairs, doc, caseVars, typeVars, docVars, ifaceVars>>
    \/ /\ pc = "prologue"
       /\ pc' = "render"
       /\ UNCHANGED <<stdin, sink, input, pairs, doc, stdout, stderr, status, phases,
                      caseVars, typeVars, docVars, ifaceVars>>

\* print!("{}", <the prologue>)
PrintPrologue ==
    /\ pc = "prologue"
    /\ WriteStep(<<Prologue>>, "prologue", "render")
    /\ UNCHANGED <<stdin, input, pairs, doc, caseVars, typeVars, docVars, ifaceVars>>

\* doc.render(&mut io::stdout()).unwrap()
Render ==
    /\ pc = "render"
    /\ WriteStep(DocumentRender(doc[1]), "render", "exit")
    /\ UNCHANGED <<stdin, input, pairs, doc, caseVars, typeVars, docVars, ifaceVars>>

\* main returns.
Exit ==
    /\ pc = "exit"
    /\ status' = Some(0)
    /\ pc' = "done"
    /\ phases' = Append(phases, "exit")
    /\ UNCHANGED <<stdin, sink, input, pairs, doc, stdout, stderr,
                   caseVars, typeVars, docVars, ifaceVars>>

Next == Read \/ Parse \/ Build \/ PrintPrologue \/ Render \/ Exit

Spec == Init /\ [][Next]_vars

----------------------------------------------------------------------------
(* One interface node, built and rendered on its own. *)

IfaceBodies == UNION {[1..n -> ItemKinds] : n \in 0..MaxBody}

IfaceInit ==
    /\ i_pc = "start"
    /\ i_node \in {[body |-> b, node |-> InterfaceNode(i, b)] :
                      b \in IfaceBodies, i \in {1, 2}}
    /\ i_ast = None
    /\ i_out = <<>>
    /\ CaseIdle /\ TypeIdle /\ DocIdle /\ MainIdle

\* Document::from_pest: Interface::from_pest(p) on an interface child.
IfaceBuild ==
    /\ i_pc = "start"
    /\ i_ast' = Some(InterfaceFromPest(i_node.node))
    /\ i_pc' = "built"
    /\ UNCHANGED <<i_node, i_out, caseVars, typeVars, docVars, mainVars>>

\* Document::render: i.render(w) into a sink that takes every write.
IfaceRender ==
    /\ i_pc = "built"
    /\ i_out' = InterfaceRender(i_ast[1])
    /\ i_pc' = "rendered"
    /\ UNCHANGED <<i_node, i_ast, caseVars, typeVars, docVars, mainVars>>

IfaceNext == IfaceBuild \/ IfaceRender

IfaceSpec == IfaceInit /\ [][IfaceNext]_vars

----------------------------------------------------------------------------
(* Properties. *)

\* How often x occurs in the sequence q.
CountOf(q, x) == Cardinality({i \in 1..Len(q) : q[i] = x})

\* The identifier child of a type node, and its explicit modifier tokens.
IdentOf(node) ==
    LET i == CHOOSE k \in 1..Len(node.inner) : node.inner[k].rule = "identifier"
    IN  node.inner[i].str

ExplicitRules(node) ==
    LET toks == SelectSeq(node.inner, LAMBDA p : p.rule \in {"pointer", "_const"})
    IN  [k \in 1..Len(toks) |-> toks[k].rule]

\* An identifier the resolver takes for an interface reference.
IsInterfaceIdent(id) ==
    /\ CharAt(id, 1) = "I"
    /\ id \notin CaseVariants("int") \cup CaseVariants("double")

\* n pointer markers.
RECURSIVE Markers(_)
Markers(n) == IF n = 0 THEN "" ELSE "*mut " \o Markers(n - 1)

\* s without the spaces and tabs it ends with.
RECURSIVE StripTrailingBlanks(_)
StripTrailingBlanks(s) ==
    IF s # "" /\ CharAt(s, Len(s)) \in {" ", "\t"}
    THEN StripTrailingBlanks(SubSeq(s, 1, Len(s) - 1))
    ELSE s

\* The snake form stated character by character: an underscore goes before
\* an uppercase character exactly when the character before it is neither
\* uppercase nor an underscore.
RECURSIVE SnakeFrom(_, _)
SnakeFrom(s, i) ==
    IF i > Len(s) THEN ""
    ELSE (IF /\ IsUppercase(CharAt(s, i))
             /\ i > 1
             /\ ~IsUppercase(CharAt(s, i - 1))
             /\ CharAt(s, i - 1) # "_"
          THEN "_" ELSE "")
         \o ToLowercase(CharAt(s, i))
         \o SnakeFrom(s, i + 1)

HasUppercase(s) == \E i \in 1..Len(s) : IsUppercase(CharAt(s, i))

\* C1: when parsing the input fails, nothing is written to standard output,
\* a non-empty diagnostic is written to standard error, and the process
\* exits with a non-zero status.
C1_ParseFailureWritesNothing ==
    (input # None /\ ~input[1].parse.ok)
        => /\ stdout = <<>>
           /\ doc = None
           /\ pc \in {"parse", "done"}
           /\ pc = "done" =>
                /\ stderr # <<>>
                /\ \A i \in 1..Len(stderr) : stderr[i] # ""
                /\ status # None
                /\ status[1] # 0

C1_Witness ==
    /\ pc = "done"
    /\ input # None
    /\ ~input[1].parse.ok
    /\ status = Some(1)
    /\ Len(stderr) = 1
    /\ stdout = <<>>

\* C2 as stated: for a base identifier that starts with "I" and is no
\* spelling of int or double, whatever the explicit pointer/const tokens and
\* their order, the base type is "<Identifier>VTable" and the first modifier
\* is Pointer.
C2_FirstModifierIsPointer ==
    (t_pc # "start" /\ IsInterfaceIdent(IdentOf(t_node)))
        => /\ t_ty.base_type = IdentOf(t_node) \o "VTable"
           /\ t_ty.modifiers # <<>>
           /\ t_ty.modifiers[1] = "Pointer"

\* C2 as amended: for such an identifier the base type is
\* "<Identifier>VTable" and the modifier list is the node's children read
\* last to first, the identifier standing for one implicit Pointer; it
\* always holds a Pointer, and its first entry is Pointer exactly when the
\* node's last child is not a const token.
C2_ImplicitPointerAtIdentifier ==
    (t_pc # "start" /\ IsInterfaceIdent(IdentOf(t_node)))
        => LET n == Len(t_node.inner) IN
           /\ t_ty.base_type = IdentOf(t_node) \o "VTable"
           /\ Len(t_ty.modifiers) = n
           /\ \A j \in 1..n :
                t_ty.modifiers[n + 1 - j] =
                    (IF t_node.inner[j].rule = "_const" THEN "Const" ELSE "Pointer")
           /\ \E j \in 1..n : t_ty.modifiers[j] = "Pointer"
           /\ (t_ty.modifiers[1] = "Pointer") <=> (t_node.inner[n].rule # "_const")

C2_Witness ==
    /\ t_pc = "resolved"
    /\ IdentOf(t_node) = "IFoo"
    /\ ExplicitRules(t_node) = <<"pointer", "_const">>
    /\ t_node.inner[1].rule = "identifier"
    /\ t_ty = [base_type |-> "IFooVTable", modifiers |-> <<"Const", "Pointer", "Pointer">>]

\* C3: the doc comment a builder stores is the captured text with every
\* trailing space and tab removed and nothing else changed; it never ends
\* in a space or a tab.
C3_DocCommentRightTrimmed ==
    d_pc = "built"
        => LET stored == StoredDoc(d_node.builder, d_ast[1]) IN
           /\ stored = Some(StripTrailingBlanks(d_node.text))
           /\ ~EndsWith(stored[1], " ")
           /\ ~EndsWith(stored[1], "\t")

\* C4: camel_to_snake lowercases every uppercase character and puts an
\* underscore only before an uppercase character that follows a character
\* which is neither uppercase nor an underscore, never before the first
\* character; "GetCount", "GetWebView2Settings" and "ABCdef" give
\* "get_count", "get_web_view2_settings" and "abcdef".
C4_CamelToSnake ==
    cs_pc \in {"once", "twice"}
        => /\ cs_out = SnakeFrom(cs_in, 1)
           /\ ~HasUppercase(cs_out)
           /\ cs_in # "" => CharAt(cs_out, 1) = ToLowercase(CharAt(cs_in, 1))
           /\ cs_in = "GetCount" => cs_out = "get_count"
           /\ cs_in = "GetWebView2Settings" => cs_out = "get_web_view2_settings"
           /\ cs_in = "ABCdef" => cs_out = "abcdef"

C4_Witness ==
    /\ cs_pc = "once"
    /\ cs_in = "GetWebView2Settings"
    /\ cs_out = "get_web_view2_settings"

\* C5: applying camel_to_snake to its own result changes nothing, and an
\* identifier without uppercase characters is left as it is.
C5_CamelToSnakeStable ==
    /\ cs_pc = "twice" => cs_again = cs_out
    /\ (cs_pc \in {"once", "twice"} /\ ~HasUppercase(cs_in)) => cs_out = cs_in

C5_Witness ==
    /\ cs_pc = "twice"
    /\ cs_in = "put_IsVisible"
    /\ cs_out = "put_is_visible"
    /\ cs_again = "put_is_visible"

\* C6: every spelling of int (of double) that differs only in letter case,
\* those starting with "I" included, resolves to i32 (to f64) with no
\* implicit modifier: the modifiers are exactly the explicit tokens of the
\* node, none when there are none.
C6_IntAndDoubleAnyCase ==
    LET id == IdentOf(t_node)
        ex == ExplicitRules(t_node)
    IN  (t_pc # "start" /\ id \in CaseVariants("int") \cup CaseVariants("double"))
            => /\ id \in CaseVariants("int") => t_ty.base_type = "i32"
               /\ id \in CaseVariants("double") => t_ty.base_type = "f64"
               /\ Len(t_ty.modifiers) = Len(ex)
               /\ CountOf(t_ty.modifiers, "Pointer") = CountOf(ex, "pointer")
               /\ CountOf(t_ty.modifiers, "Const") = CountOf(ex, "_const")
               /\ ex = <<>> => t_ty.modifiers = <<>>

C6_Witness ==
    /\ t_pc = "resolved"
    /\ IdentOf(t_node) = "INT"
    /\ ExplicitRules(t_node) = <<"pointer">>
    /\ t_ty = [base_type |-> "i32", modifiers |-> <<"Pointer">>]

\* C7 as stated: a type node with exactly two explicit pointer qualifiers and
\* no other modifier, whatever its base identifier, resolves to two
\* modifiers, both Pointer, and renders as two pointer markers before the
\* base type name.
C7_TwoPointersAnyBase ==
    (t_pc # "start" /\ ExplicitRules(t_node) = <<"pointer", "pointer">>)
        => /\ t_ty.modifiers = <<"Pointer", "Pointer">>
           /\ t_pc = "rendered" => t_out = Markers(2) \o t_ty.base_type

\* C7 as amended: such a node resolves to two modifiers, both Pointer, and
\* renders as two markers before the base type name, unless its base
\* identifier is an interface reference; then the implicit Pointer makes it
\* three modifiers, all Pointer, rendered as three markers.
C7_TwoPointersPlusImplicit ==
    (t_pc # "start" /\ ExplicitRules(t_node) = <<"pointer", "pointer">>)
        => IF IsInterfaceIdent(IdentOf(t_node))
           THEN /\ t_ty.modifiers = <<"Pointer", "Pointer", "Pointer">>
                /\ t_pc = "rendered"
                     => t_out = "*mut *mut *mut " \o IdentOf(t_node) \o "VTable"
           ELSE /\ t_ty.modifiers = <<"Pointer", "Pointer">>
                /\ t_pc = "rendered" => t_out = "*mut *mut " \o t_ty.base_type

C7_Witness ==
    /\ t_pc = "rendered"
    /\ IdentOf(t_node) = "HRESULT"
    /\ ExplicitRules(t_node) = <<"pointer", "pointer">>
    /\ t_out = "*mut *mut HRESULT"

\* C8: Type::render writes one "*mut " per Pointer modifier, then the base
\* type name, and nothing else; Types that differ only in where and whether
\* they hold Const modifiers render the same.
C8_RenderIgnoresConst ==
    t_pc = "rendered"
        => /\ t_out = Markers(CountOf(t_ty.modifiers, "Pointer")) \o t_ty.base_type
           /\ \A n \in 0..(MaxMods + 1) : \A ms \in [1..n -> {"Pointer", "Const"}] :
                (CountOf(ms, "Pointer") = CountOf(t_ty.modifiers, "Pointer"))
                    => Concat(TypeRender([base_type |-> t_ty.base_type, modifiers |-> ms]))
                         = t_out

C8_Witness ==
    /\ t_pc = "rendered"
    /\ t_ty = [base_type |-> "HRESULT", modifiers |-> <<"Const", "Pointer", "Const">>]
    /\ t_out = "*mut HRESULT"

\* The builders that assert the kind of their node, and the kind each expects.
AssertingBuilders ==
    {"Type", "Parameter", "Method", "TypedefEnum", "Field", "TypedefStruct",
     "Interface", "Document"}

ExpectedRule(b) ==
    CASE b = "Type" -> "_type"
      [] b = "Parameter" -> "parameter"
      [] b = "Method" -> "method"
      [] b = "TypedefEnum" -> "typedef_enum"
      [] b = "Field" -> "field"
      [] b = "TypedefStruct" -> "typedef_struct"
      [] b = "Interface" -> "interface"
      [] b = "Document" -> "document"

FromPest(b, node) ==
    CASE b = "Type" -> TypeFromPest(node)
      [] b = "Parameter" -> ParameterFromPest(node)
      [] b = "Document" -> DocumentFromPest(node)
      [] OTHER -> BuildWith(b, node)

\* C9: a builder handed a node of another kind than it expects aborts the
\* process there: no AST node is made in its place, building does not go
\* on, and standard output has taken and takes no write, the prologue
\* included.
C9_KindMismatchAborts ==
    (pairs # <<>> /\ pairs[1].rule # "document")
        => /\ \A b \in AssertingBuilders :
                pairs[1].rule # ExpectedRule(b) => IsPanic(FromPest(b, pairs[1]))
           /\ doc = None
           /\ stdout = <<>>
           /\ pc \in {"build", "done"}
           /\ pc = "done" => (status = Some(101) /\ stderr # <<>> /\ phases = <<"read", "parse">>)

C9_Witness ==
    /\ pc = "done"
    /\ pairs # <<>>
    /\ pairs[1].rule = "interface"
    /\ status = Some(101)
    /\ doc = None
    /\ stdout = <<>>

IsPrefix(a, b) == Len(a) <= Len(b) /\ SubSeq(b, 1, Len(a)) = a

PhaseOrder == <<"read", "parse", "build", "prologue", "render", "exit">>

\* C10: a successful run reads all of standard input, parses the document,
\* builds the whole AST, writes the prologue, renders the Document and
\* exits with status 0, in that order; standard output takes no write
\* before the AST is built, and takes the whole prologue before anything of
\* the rendered Document.
C10_PhasesInOrder ==
    /\ IsPrefix(phases, PhaseOrder)
    /\ stdout # <<>>
         => /\ doc # None
            /\ doc = Some(DocumentFromPest(pairs[1]))
            /\ stdout[1] = Prologue
    /\ Len(stdout) > 1 => IsPrefix(SubSeq(PhaseOrder, 1, 4), phases)
    /\ (status # None /\ status[1] = 0)
         => /\ phases = PhaseOrder
            /\ input = Some(stdin)
            /\ pairs = IDLParser_parse(stdin).pairs
            /\ stdout = <<Prologue>>
                          \o SelectSeq(DocumentRender(doc[1]), LAMBDA w : w # "")
            /\ stderr = <<>>

C10_Witness ==
    /\ pc = "done"
    /\ status = Some(0)
    /\ Len(doc[1].interfaces) >= 2
    /\ doc[1].interfaces[1].enums # <<>>
    /\ Len(stdout) > 4
    /\ phases = PhaseOrder

\* The positions, in source order, of the children of one kind in a body.
PositionsOf(body, kind) ==
    SelectSeq([j \in 1..Len(body) |-> j], LAMBDA j : body[j] = kind)

\* The names declared at the positions ps, each after the prefix pre.
NamesAt(ps, pre) == [k \in 1..Len(ps) |-> pre \o CharAt(Letters, ps[k])]

NamesOf(nodes) == [k \in 1..Len(nodes) |-> nodes[k].name]

\* The writes that open or close a declaration, in the order they are made.
DeclarationWrites(ws) ==
    SelectSeq(ws, LAMBDA w : \/ StartsWith(w, "pub trait ")
                             \/ StartsWith(w, "    unsafe fn ")
                             \/ StartsWith(w, "pub enum ")
                             \/ StartsWith(w, "pub struct ")
                             \/ w = "}\n")

RECURSIVE Flatten(_)
Flatten(qs) == IF qs = <<>> THEN <<>> ELSE Head(qs) \o Flatten(Tail(qs))

\* C11: whatever the interleaving of an interface node's method,
\* typedef-enum and typedef-struct children, Interface::from_pest puts each
\* kind into its own list in source order, and Interface::render emits all
\* methods inside the interface body, then all nested enums, then all nested
\* structs, each group in declaration order.
C11_KindsKeepOrder ==
    LET ms == PositionsOf(i_node.body, "method")
        es == PositionsOf(i_node.body, "typedef_enum")
        ss == PositionsOf(i_node.body, "typedef_struct")
    IN  /\ i_pc \in {"built", "rendered"}
             => /\ NamesOf(i_ast[1].methods) = NamesAt(ms, "Get")
                /\ NamesOf(i_ast[1].enums) = NamesAt(es, "E")
                /\ NamesOf(i_ast[1].structs) = NamesAt(ss, "S")
        /\ i_pc = "rendered"
             => DeclarationWrites(i_out) =
                    <<"pub trait " \o i_ast[1].name \o ": IUnknown {\n">>
                    \o [k \in 1..Len(ms) |->
                          "    unsafe fn get_" \o ToLowercase(CharAt(Letters, ms[k]))
                              \o "(&self"]
                    \o <<"}\n">>
                    \o Flatten([k \in 1..Len(es) |->
                          <<"pub enum E" \o CharAt(Letters, es[k]) \o " {\n", "}\n">>])
                    \o Flatten([k \in 1..Len(ss) |->
                          <<"pub struct S" \o CharAt(Letters, ss[k]) \o " {\n", "}\n">>])

C11_Witness ==
    /\ i_pc = "rendered"
    /\ i_node.body = <<"typedef_struct", "typedef_enum", "method">>
    /\ NamesOf(i_ast[1].methods) = <<"GetC">>
    /\ NamesOf(i_ast[1].enums) = <<"EB">>
    /\ NamesOf(i_ast[1].structs) = <<"SA">>
    /\ DeclarationWrites(i_out) =
          <<"pub trait IA: IUnknown {\n", "    unsafe fn get_c(&self", "}\n",
            "pub enum EB {\n", "}\n", "pub struct SA {\n", "}\n">>

\* Everything a run whose writes all succeed puts on standard output.
FullOutput == <<Prologue>> \o SelectSeq(DocumentRender(doc[1]), LAMBDA w : w # "")

\* Document::render returned an error to main.
RenderFailed == pc = "done" /\ phases = SubSeq(PhaseOrder, 1, 4)

\* C12: when a write to the sink fails while a Document is rendered, no
\* write is attempted after it, the error reaches main, which ends the
\* process abnormally, and what was written before stays as it is, a prefix
\* of the output of a render without failure.
C12_RenderStopsAtFailure ==
    /\ sink.calls <= Len(stdout) + 1
    /\ doc # None => IsPrefix(stdout, FullOutput)
    /\ RenderFailed
         => /\ sink.calls = Len(stdout) + 1
            /\ Len(stdout) < Len(FullOutput)
            /\ status = Some(101)
            /\ stderr # <<>>

C12_Witness ==
    /\ RenderFailed
    /\ sink.once
    /\ stdout[Len(stdout)] = "value: "
    /\ sink.calls = Len(stdout) + 1
    /\ status = Some(101)

=============================================================================
